---- MODULE Spec2Model ----
(***************************************************************************)
(* A model of indelve: the aggregator (indelve/main.py) and the            *)
(* applications provider (indelve/providers/applications.py).              *)
(*                                                                         *)
(* Text is a sequence of one-character strings, so that indexing, slicing, *)
(* case folding and find() are computed as Python computes them.  Python   *)
(* indexes from 0; the helpers below keep Python's indices.                *)
(***************************************************************************)
EXTENDS Integers, Sequences, FiniteSets, TLC

VARIABLES
    world,            \* which set of files the environment can install
    fs,               \* directory slot -> [file, mtime]; file "absent" when empty
    now,              \* the wall clock, datetime.now()
    constructed,      \* an Indelve object exists
    providerInstances,\* Indelve.providerInstances (the names that are keys)
    database,         \* Provider.database of the applications provider
    origin,           \* history: the file each record of database was read from
    lastRefreshTime,  \* Provider.lastRefreshTime (0 is datetime.min)
    warnings,         \* the warnings issued through warn()
    lastOp,           \* the call that was made last
    requested,        \* the providers argument of the last Indelve(providers)
    force,            \* the force argument of the last refresh
    outcome,          \* how the last call ended: "ok" or the exception's name
    query,            \* the query of the last search
    matches,          \* what the applications provider's search returned last
    items             \* what Indelve.search returned last

vars == <<world, fs, now, constructed, providerInstances, database, origin,
          lastRefreshTime, warnings, lastOp, requested, force, outcome, query,
          matches, items>>

----------------------------------------------------------------------------
(* Bounds *)

MaxTime == 2

----------------------------------------------------------------------------
(* Python's str operations *)

\* the ASCII letters: upper case -> lower case, and lower case -> upper case
LowerOf ==
    [A |-> "a", B |-> "b", C |-> "c", D |-> "d", E |-> "e", F |-> "f", G
     |-> "g", H |-> "h", I |-> "i", J |-> "j", K |-> "k", L |-> "l", M |->
     "m", N |-> "n", O |-> "o", P |-> "p", Q |-> "q", R |-> "r", S |-> "s",
     T |-> "t", U |-> "u", V |-> "v", W |-> "w", X |-> "x", Y |-> "y", Z
     |-> "z"]
UpperOf ==
    [a |-> "A", b |-> "B", c |-> "C", d |-> "D", e |-> "E", f |-> "F", g
     |-> "G", h |-> "H", i |-> "I", j |-> "J", k |-> "K", l |-> "L", m |->
     "M", n |-> "N", o |-> "O", p |-> "P", q |-> "Q", r |-> "R", s |-> "S",
     t |-> "T", u |-> "U", v |-> "V", w |-> "W", x |-> "X", y |-> "Y", z
     |-> "Z"]

\* c.lower() of one character
LowerChar(c) == IF c \in DOMAIN LowerOf THEN LowerOf[c] ELSE c

\* c.upper() of one character
UpperChar(c) == IF c \in DOMAIN UpperOf THEN UpperOf[c] ELSE c

\* s.lower()
Lower(s) == [i \in 1..Len(s) |-> LowerChar(s[i])]

\* s[i], i a Python index 0 <= i < len(s)
At(s, i) == s[i + 1]

\* s[a:b] for 0 <= a, 0 <= b (either may exceed len(s))
Slice(s, a, b) ==
    LET hi == IF b > Len(s) THEN Len(s) ELSE b
    IN  IF a >= hi THEN <<>> ELSE SubSeq(s, a + 1, hi)

\* s[:stop], stop any integer: a negative stop counts from the end
SliceTo(s, stop) ==
    LET b == IF stop < 0 THEN (IF Len(s) + stop < 0 THEN 0 ELSE Len(s) + stop)
             ELSE stop
    IN  Slice(s, 0, b)

\* s[start:]
SliceFrom(s, start) == Slice(s, start, Len(s))

\* sub occurs in s at Python index i
OccursAt(s, sub, i) == \A j \in 1..Len(sub) : s[i + j] = sub[j]

RECURSIVE FindFrom(_, _, _)
FindFrom(s, sub, i) ==
    IF i + Len(sub) > Len(s) THEN -1
    ELSE IF OccursAt(s, sub, i) THEN i
    ELSE FindFrom(s, sub, i + 1)

\* s.find(sub): the lowest Python index where sub occurs in s, or -1
Find(s, sub) == FindFrom(s, sub, 0)

\* c in s
Contains(s, c) == \E i \in 1..Len(s) : s[i] = c

\* s.translate(None, " _-"): s with the characters space, underscore, hyphen deleted
IsSeparator(c) == c \in {" ", "_", "-"}
Translate(s) == SelectSeq(s, LAMBDA c : ~IsSeparator(c))

Max(a, b) == IF a >= b THEN a ELSE b

\* floor(ln(n) * 10^9) as <<thousands of millionths...>> three groups:
\* ln(n) = (LnTable[n][1] * 10^6 + LnTable[n][2] * 10^3 + LnTable[n][3]) / 10^9
LnTable == <<
    <<0, 0, 0>>,
    <<693, 147, 180>>,
    <<1098, 612, 288>>,
    <<1386, 294, 361>>,
    <<1609, 437, 912>>,
    <<1791, 759, 469>>,
    <<1945, 910, 149>>
  >>

\* int(score * (math.log(n)/5 + 1)): the product truncated towards zero.
\* score * ln(n) / 5 is computed in three limbs so that no intermediate
\* value leaves 32 bits.
LengthBoost(score, n) ==
    LET a == IF score < 0 THEN 0 - score ELSE score
        L == LnTable[n]
        t == (a * L[1] + ((a * L[2] + ((a * L[3]) \div 1000)) \div 1000)) \div 5000
    IN  IF score < 0 THEN 0 - (a + t) ELSE a + t

----------------------------------------------------------------------------
(* Provider.RELEVANCE and Provider.SCORING *)

RELEVANCE == [min |-> 0, bad |-> 2500, acceptable |-> 5000, good |-> 7500,
              excellent |-> 9000, max |-> 10000]

SubKeys == {"name", "comment", "genericName"}
AcrKeys == {"name", "genericName"}

SCORING == [
    substring |-> [
        found        |-> [name |-> 2500, comment |-> 750, genericName |-> 1800],
        start_string |-> [name |-> 3000, comment |-> 0,   genericName |-> 2600],
        start_word   |-> [name |-> 2500, comment |-> 750, genericName |-> 1800],
        multiples    |-> [k \in 0..3 |-> CASE k = 0 -> 0 [] k = 1 -> 0
                                           [] k = 2 -> 2000 [] k = 3 -> 4000]
    ],
    acronym |-> [
        found            |-> [name |-> 3000, genericName |-> 3000],
        start_string     |-> [name |-> 800,  genericName |-> 800],
        letter_word      |-> [name |-> 1200, genericName |-> 1000],
        letter_capital   |-> [name |-> 800,  genericName |-> 700],
        letter_non       |-> [name |-> 500,  genericName |-> 500],
        letter_word_skip |-> [name |-> 1200, genericName |-> 1000]
    ]
]

----------------------------------------------------------------------------
(* Provider.search: the substring score (applications.py 282-304) *)

\* index = app[key].lower().find(queryLower) (line 290)
keyIndex(app, key, queryLower) == Find(Lower(app[key]), queryLower)

\* substringKeyScore that leaves out "+found"
substringKeyScoreNoFound(app, key, index) ==
    IF index = -1 THEN 0
    ELSE IF index = 0 THEN SCORING.substring.start_string[key]
    ELSE IF At(app[key], index - 1) = " " THEN SCORING.substring.start_word[key]
    ELSE 0

\* One key's contribution to scoreSub, given its index (lines 291-300)
substringKeyScore(app, key, index) ==
    IF index = -1 THEN 0
    ELSE SCORING.substring.found[key]
         + (IF index = 0 THEN SCORING.substring.start_string[key]
            ELSE IF At(app[key], index - 1) = " "
                 THEN SCORING.substring.start_word[key]
                 ELSE 0)

\* matched that never counts a key
matchedNever(index) == 0

\* 1 when the key matched, for keysMatched (line 292)
matched(index) == IF index = -1 THEN 0 ELSE 1

\* scoreSub before the length boost (lines 284-302)
substringSum(app, q) ==
    LET queryLower == Lower(q)
        iName      == keyIndex(app, "name", queryLower)
        iComment   == keyIndex(app, "comment", queryLower)
        iGeneric   == keyIndex(app, "genericName", queryLower)
        keysMatched == matched(iName) + matched(iComment) + matched(iGeneric)
    IN  substringKeyScore(app, "name", iName)
        + substringKeyScore(app, "comment", iComment)
        + substringKeyScore(app, "genericName", iGeneric)
        - SCORING.substring.multiples[keysMatched]

\* scoreSub
scoreSub(app, q) == LengthBoost(substringSum(app, q), Len(q))

\* The copy of the provider in providers/applications.py (lines 167-180): the
\* score of app before the length factor of line 182, which depends on
\* len(query) alone.  Its weights are the ones of SCORING.substring; it
\* searches the folded text for `query` as given (line 171).
legacyKeyIndex(app, key, q) == Find(Lower(app[key]), q)

legacySubstringSum(app, q) ==
    substringKeyScore(app, "name", legacyKeyIndex(app, "name", q))
    + substringKeyScore(app, "comment", legacyKeyIndex(app, "comment", q))
    + substringKeyScore(app, "genericName", legacyKeyIndex(app, "genericName", q))

----------------------------------------------------------------------------
(* Provider._acronymMaxiumScore (applications.py 180-244) *)

\* capitalBonus that never finds a capital
capitalBonusNever(stringLeft, index, key) == 0

\* "+letter_capital": an uppercase letter following a lowercase letter
\* (lines 219-221)
capitalBonus(stringLeft, index, key) ==
    IF /\ index > 0
       /\ UpperChar(At(stringLeft, index)) = At(stringLeft, index)
       /\ LowerChar(At(stringLeft, index - 1)) = At(stringLeft, index - 1)
       /\ UpperChar(At(stringLeft, index - 1)) # At(stringLeft, index - 1)
    THEN SCORING.acronym.letter_capital[key]
    ELSE 0

\* letterScore before the word skip is looked at (lines 209-225): the sum of
\* the bonuses that hold, or -letter_non when none does
letterBonus(string, stringLeft, index, key, first) ==
    LET startBonus ==
            IF first /\ index = 0 /\ stringLeft = string
            THEN SCORING.acronym.start_string[key] + SCORING.acronym.letter_word[key]
            ELSE 0
        wordBonus ==
            IF index > 0 /\ At(stringLeft, index - 1) = " "
            THEN SCORING.acronym.letter_word[key]
            ELSE 0
        bonus == startBonus + wordBonus + capitalBonus(stringLeft, index, key)
    IN  IF bonus = 0 THEN 0 - SCORING.acronym.letter_non[key] ELSE bonus

\* skipPenalty that looks at the first letter as well
skipPenaltyAlways(string, stringLeft, index, key, first) ==
    IF Contains(SliceTo(string, index - Len(stringLeft) - 1), " ")
    THEN SCORING.acronym.letter_word_skip[key]
    ELSE 0

\* "-letter_word_skip" (lines 227-229): what is subtracted from letterScore
skipPenalty(string, stringLeft, index, key, first) ==
    IF ~first /\ Contains(SliceTo(string, index - Len(stringLeft) - 1), " ")
    THEN SCORING.acronym.letter_word_skip[key]
    ELSE 0

\* letterScore of the occurrence at `index` of stringLeft (lines 209-229)
letterScore(string, stringLeft, index, key, first) ==
    letterBonus(string, stringLeft, index, key, first)
    - skipPenalty(string, stringLeft, index, key, first)

RECURSIVE acronymMaxiumScore(_, _, _, _)
RECURSIVE acronymLoop(_, _, _, _, _)

\* The while loop (lines 200-241): the maximum of nextScore over the
\* occurrences of acronym[0] in stringLeft, and 0 (the initial maxScore)
acronymLoop(string, stringLeft, acronym, key, first) ==
    LET index == Find(Lower(stringLeft), <<acronym[1]>>)
    IN  IF index = -1 THEN 0
        ELSE LET rest        == SliceFrom(stringLeft, index + 1)
                 remainScore == acronymMaxiumScore(rest, Tail(acronym), key, FALSE)
                 nextScore   == IF remainScore # 0
                                THEN letterScore(string, stringLeft, index, key, first)
                                     + remainScore
                                ELSE 0
             IN  Max(nextScore, acronymLoop(string, rest, acronym, key, first))

acronymMaxiumScore(string, acronym, key, first) ==
    IF Len(acronym) = 0 THEN SCORING.acronym.found[key]
    ELSE acronymLoop(string, string, acronym, key, first)

\* scoreAcr (lines 306-314)
scoreAcr(app, q) ==
    LET acronym == Translate(Lower(q))
    IN  Max(0, Max(acronymMaxiumScore(app["name"], acronym, "name", TRUE),
                   acronymMaxiumScore(app["genericName"], acronym, "genericName", TRUE)))

----------------------------------------------------------------------------
(* Provider.search (applications.py 264-335) *)

\* score before it is made valid (line 317)
rawScore(app, q) == Max(scoreSub(app, q), scoreAcr(app, q))

\* clampScore without the check against RELEVANCE["max"]
clampScoreNoMax(score) ==
    IF score < RELEVANCE.min THEN RELEVANCE.min ELSE score

\* "Make sure the score is valid" (lines 319-323)
clampScore(score) ==
    IF score < RELEVANCE.min THEN RELEVANCE.min
    ELSE IF score > RELEVANCE.max THEN RELEVANCE.max
    ELSE score

\* the <item-dict> appended for app (lines 327-333)
itemDict(app, score) ==
    [relevance |-> score, name |-> app.name, exec |-> app.exec,
     description |-> app.comment, icon |-> app.icon]

\* "If a match is found" (line 326)
isMatch(score) == score > 0

----------------------------------------------------------------------------
(* The environment: the XDG application directories and PATH *)

\* What a file is: whether it is a regular file, its extension, what
\* DesktopEntry.DesktopEntry(fullPath) raises ("ok": nothing), and the keys
\* of the parsed entry.
DesktopFile(id) ==
    CASE
       id = "gimp" ->
        [isFile |-> TRUE, ext |-> <<".","d","e","s","k","t","o","p">>, parse |-> "ok",
         type |-> "Application", hidden |-> FALSE, hasTryExec |-> FALSE,
         tryExec |-> "", categories |-> {"Graphics"}, exec |-> "gimp",
         name |-> <<"G","N","U"," ","I","m","a","g","e"," ","M","a","n","i","p","u","l","a","t","i","o","n"," ","P","r","o","g","r","a","m">>,
         genericName |-> <<"I","m","a","g","e"," ","E","d","i","t","o","r">>,
         comment |-> <<"C","r","e","a","t","e"," ","i","m","a","g","e","s"," ","a","n","d"," ","e","d","i","t"," ","p","h","o","t","o","g","r","a","p","h","s">>,
         icon |-> ""]
    [] id = "writer" ->
        [isFile |-> TRUE, ext |-> <<".","d","e","s","k","t","o","p">>, parse |-> "ok",
         type |-> "Application", hidden |-> FALSE, hasTryExec |-> FALSE,
         tryExec |-> "", categories |-> {"Office"}, exec |-> "soffice --writer",
         name |-> <<"L","i","b","r","e","O","f","f","i","c","e"," ","W","r","i","t","e","r">>,
         genericName |-> <<"W","o","r","d"," ","P","r","o","c","e","s","s","o","r">>,
         comment |-> <<"C","r","e","a","t","e"," ","a","n","d"," ","e","d","i","t"," ","t","e","x","t"," ","a","n","d"," ","g","r","a","p","h","i","c","s">>,
         icon |-> ""]
    [] id = "firefox" ->
        [isFile |-> TRUE, ext |-> <<".","d","e","s","k","t","o","p">>, parse |-> "ok",
         type |-> "Application", hidden |-> FALSE, hasTryExec |-> FALSE,
         tryExec |-> "", categories |-> {"Network"}, exec |-> "firefox",
         name |-> <<"F","i","r","e","f","o","x">>,
         genericName |-> <<"W","e","b"," ","B","r","o","w","s","e","r">>,
         comment |-> <<"B","r","o","w","s","e"," ","t","h","e"," ","W","o","r","l","d"," ","W","i","d","e"," ","W","e","b">>,
         icon |-> ""]
    [] id = "terminal" ->
        [isFile |-> TRUE, ext |-> <<".","d","e","s","k","t","o","p">>, parse |-> "ok",
         type |-> "Application", hidden |-> FALSE, hasTryExec |-> FALSE,
         tryExec |-> "", categories |-> {"System"}, exec |-> "xterm",
         name |-> <<"T","e","r","m","i","n","a","l">>,
         genericName |-> <<>>,
         comment |-> <<"U","s","e"," ","t","h","e"," ","c","o","m","m","a","n","d"," ","l","i","n","e">>,
         icon |-> ""]
    [] id = "fire" ->
        [isFile |-> TRUE, ext |-> <<".","d","e","s","k","t","o","p">>, parse |-> "ok",
         type |-> "Application", hidden |-> FALSE, hasTryExec |-> TRUE,
         tryExec |-> "fire", categories |-> {"System"}, exec |-> "fire",
         name |-> <<"F","i","r","e">>,
         genericName |-> <<"F","i","r","e","w","a","l","l">>,
         comment |-> <<>>,
         icon |-> ""]
    [] id = "fireAlt" ->
        [isFile |-> TRUE, ext |-> <<".","D","E","S","K","T","O","P">>, parse |-> "ok",
         type |-> "Application", hidden |-> FALSE, hasTryExec |-> FALSE,
         tryExec |-> "", categories |-> {"System"}, exec |-> "fire --alt",
         name |-> <<"F","I","R","E">>,
         genericName |-> <<"F","i","r","e","W","a","l","l">>,
         comment |-> <<>>,
         icon |-> "fire"]
    [] id = "isDirectory" ->
        [isFile |-> FALSE, ext |-> <<".","d","e","s","k","t","o","p">>, parse |-> "ok",
         type |-> "Application", hidden |-> FALSE, hasTryExec |-> FALSE,
         tryExec |-> "", categories |-> {}, exec |-> "fire",
         name |-> <<"F","i","r","e"," ","D","i","r">>,
         genericName |-> <<>>,
         comment |-> <<>>,
         icon |-> ""]
    [] id = "notDesktop" ->
        [isFile |-> TRUE, ext |-> <<".","t","x","t">>, parse |-> "ok",
         type |-> "Application", hidden |-> FALSE, hasTryExec |-> FALSE,
         tryExec |-> "", categories |-> {}, exec |-> "fire",
         name |-> <<"F","i","r","e"," ","T","e","x","t">>,
         genericName |-> <<>>,
         comment |-> <<>>,
         icon |-> ""]
    [] id = "unparsable" ->
        [isFile |-> TRUE, ext |-> <<".","d","e","s","k","t","o","p">>, parse |-> "ParsingError",
         type |-> "Application", hidden |-> FALSE, hasTryExec |-> FALSE,
         tryExec |-> "", categories |-> {}, exec |-> "fire",
         name |-> <<"F","i","r","e"," ","B","r","o","k","e","n">>,
         genericName |-> <<>>,
         comment |-> <<>>,
         icon |-> ""]
    [] id = "unreadable" ->
        [isFile |-> TRUE, ext |-> <<".","d","e","s","k","t","o","p">>, parse |-> "os.error",
         type |-> "Application", hidden |-> FALSE, hasTryExec |-> FALSE,
         tryExec |-> "", categories |-> {}, exec |-> "fire",
         name |-> <<"F","i","r","e"," ","L","o","c","k","e","d">>,
         genericName |-> <<>>,
         comment |-> <<>>,
         icon |-> ""]
    [] id = "link" ->
        [isFile |-> TRUE, ext |-> <<".","d","e","s","k","t","o","p">>, parse |-> "ok",
         type |-> "Link", hidden |-> FALSE, hasTryExec |-> FALSE,
         tryExec |-> "", categories |-> {}, exec |-> "fire",
         name |-> <<"F","i","r","e"," ","L","i","n","k">>,
         genericName |-> <<>>,
         comment |-> <<>>,
         icon |-> ""]
    [] id = "hidden" ->
        [isFile |-> TRUE, ext |-> <<".","d","e","s","k","t","o","p">>, parse |-> "ok",
         type |-> "Application", hidden |-> TRUE, hasTryExec |-> FALSE,
         tryExec |-> "", categories |-> {}, exec |-> "fire",
         name |-> <<"F","i","r","e"," ","H","i","d","d","e","n">>,
         genericName |-> <<>>,
         comment |-> <<>>,
         icon |-> ""]
    [] id = "tryExecFails" ->
        [isFile |-> TRUE, ext |-> <<".","d","e","s","k","t","o","p">>, parse |-> "ok",
         type |-> "Application", hidden |-> FALSE, hasTryExec |-> TRUE,
         tryExec |-> "nonesuch", categories |-> {}, exec |-> "fire",
         name |-> <<"F","i","r","e"," ","M","i","s","s","i","n","g">>,
         genericName |-> <<>>,
         comment |-> <<>>,
         icon |-> ""]
    [] id = "screensaver" ->
        [isFile |-> TRUE, ext |-> <<".","d","e","s","k","t","o","p">>, parse |-> "ok",
         type |-> "Application", hidden |-> FALSE, hasTryExec |-> FALSE,
         tryExec |-> "", categories |-> {"Screensaver"}, exec |-> "fire",
         name |-> <<"F","i","r","e"," ","S","a","v","e","r">>,
         genericName |-> <<>>,
         comment |-> <<>>,
         icon |-> ""]
    [] id = "noExec" ->
        [isFile |-> TRUE, ext |-> <<".","d","e","s","k","t","o","p">>, parse |-> "ok",
         type |-> "Application", hidden |-> FALSE, hasTryExec |-> FALSE,
         tryExec |-> "", categories |-> {}, exec |-> "",
         name |-> <<"F","i","r","e"," ","E","m","p","t","y">>,
         genericName |-> <<>>,
         comment |-> <<>>,
         icon |-> ""]

ValidFiles   == {"gimp", "writer", "firefox", "terminal", "fire", "fireAlt"}
InvalidFiles == {"isDirectory", "notDesktop", "unparsable", "unreadable", "link",
                 "hidden", "tryExecFails", "screensaver", "noExec"}

\* The files the environment can put in each directory slot, by world.
\* The slots are in the order _getXdgApplicationFiles lists them.
Candidates ==
    [scenario   |-> <<{"gimp"}, {"writer"}, {"firefox"}, {"terminal"}>>,
     validation |-> <<InvalidFiles \cup {"fire"}, {"fireAlt", "hidden"}>>,
     scoring    |-> <<{"fire", "fireAlt", "firefox"}, {"fire", "fireAlt", "firefox"}>>]

Worlds == DOMAIN Candidates

Slots(w) == 1..Len(Candidates[w])

Absent == [file |-> "absent", mtime |-> 0]

\* The executables on PATH
OnPath == {"gimp", "soffice", "firefox", "xterm", "fire"}

\* utilities.which(name): the resolved command, or "None"
which(name) == IF name \in OnPath THEN name ELSE "None"

\* The queries searched for
Queries == {<<>>, <<"f","i","r","e">>, <<"F","I","R","E">>, <<"l","o","w">>,
            <<"g","i","m","p">>, <<"x","y","z">>}

\* The provider lists Indelve is constructed with (isNone: providers=None)
ProviderLists ==
    {[isNone |-> TRUE, names |-> <<>>]}
    \cup {[isNone |-> FALSE, names |-> l] :
            l \in {<<>>, <<"applications">>, <<"bogus">>,
                   <<"applications", "bogus">>, <<"bogus", "applications">>}}

----------------------------------------------------------------------------
(* The applications provider's database (applications.py 18-25, 98-177, 247-261) *)

RECURSIVE listSlots(_, _)
listSlots(f, s) ==
    IF s > Len(f) THEN <<>>
    ELSE (IF f[s].file = "absent" THEN <<>> ELSE <<s>>) \o listSlots(f, s + 1)

\* _getXdgApplicationFiles(): every entry of the directories, in listing order
getXdgApplicationFiles(f) == listSlots(f, 1)

\* The exceptions _addApplication catches
CaughtByAdd == {"ParsingError", "DuplicateGroupError", "DuplicateKeyError",
                "os.error", "FileParseError"}

\* isHidden that takes no entry to be hidden
isHiddenIgnored(entry) == FALSE

\* entry.getHidden() (line 152)
isHidden(entry) == entry.hidden

\* the checks of _getApplicationDict on the file `entry` (lines 138-177):
\* [raised, dict]
readEntry(entry) ==
    LET fail(e) == [raised |-> e, dict |-> <<>>]
    IN  IF ~entry.isFile THEN fail("FileParseError")
        ELSE IF Lower(entry.ext) # <<".","d","e","s","k","t","o","p">>
             THEN fail("FileParseError")
        ELSE IF entry.parse # "ok" THEN fail(entry.parse)
        ELSE IF entry.type # "Application" THEN fail("FileParseError")
        ELSE IF isHidden(entry) THEN fail("FileParseError")
        ELSE IF entry.hasTryExec /\ which(entry.tryExec) = "None"
             THEN fail("FileParseError")
        ELSE IF "Screensaver" \in entry.categories THEN fail("FileParseError")
        ELSE IF entry.exec = "" THEN fail("FileParseError")
        ELSE [raised |-> "none",
              dict |-> [name |-> entry.name, exec |-> entry.exec,
                        comment |-> entry.comment,
                        genericName |-> entry.genericName, icon |-> entry.icon]]

\* _getApplicationDict(fullPath)
getApplicationDict(id) == readEntry(DesktopFile(id))

\* the try/except of _addApplication on the provider state st = [database,
\* origin, lastRefreshTime, outcome], r being what _getApplicationDict did:
\* the record is appended, or the exception is swallowed when it is a caught one
appendOrSwallow(st, id, r) ==
    IF r.raised = "none"
    THEN [st EXCEPT !.database = Append(@, r.dict), !.origin = Append(@, id)]
    ELSE IF r.raised \in CaughtByAdd THEN st
    ELSE [st EXCEPT !.outcome = r.raised]

\* _addApplication(fullPath)
addApplication(st, id) == appendOrSwallow(st, id, getApplicationDict(id))

RECURSIVE loadLoop(_, _, _)
loadLoop(st, f, files) ==
    IF files = <<>> \/ st.outcome # "ok" THEN st
    ELSE loadLoop(addApplication(st, f[Head(files)].file), f, Tail(files))

\* "The database is fresh now" (line 118), reached when the loop raised nothing
stampRefreshTime(st, t) ==
    IF st.outcome # "ok" THEN st ELSE [st EXCEPT !.lastRefreshTime = t]

\* _loadApplications()
loadApplications(st, f, t) ==
    IF st.database # <<>> THEN [st EXCEPT !.outcome = "LoadError"]
    ELSE stampRefreshTime(loadLoop(st, f, getXdgApplicationFiles(f)), t)

\* Provider.__init__()
providerInit(f, t) ==
    loadApplications([database |-> <<>>, origin |-> <<>>, lastRefreshTime |-> 0,
                      outcome |-> "ok"], f, t)

\* os.path.getmtime(*args): one positional argument is required
getmtime(f, args) ==
    IF Len(args) # 1 THEN [raised |-> "TypeError", value |-> 0]
    ELSE [raised |-> "none", value |-> f[args[1]].mtime]

\* the arguments refresh passes to os.path.getmtime for fullPath (line 259)
getmtimeArgs(fullPath) == <<>>

\* the body of the loop of refresh(force=False) for one file, modifiedTime
\* being what getmtime did (lines 259-261)
partialStep(st, id, modifiedTime) ==
    IF modifiedTime.raised # "none" THEN [st EXCEPT !.outcome = modifiedTime.raised]
    ELSE IF modifiedTime.value > st.lastRefreshTime THEN addApplication(st, id)
    ELSE st

RECURSIVE partialLoop(_, _, _)
\* the loop of refresh(force=False) (lines 256-261)
partialLoop(st, f, files) ==
    IF files = <<>> \/ st.outcome # "ok" THEN st
    ELSE partialLoop(partialStep(st, f[Head(files)].file,
                                 getmtime(f, getmtimeArgs(Head(files)))),
                     f, Tail(files))

\* clearDatabase that keeps the records
keepDatabase(st) == st

\* database = [] of refresh(force=True) (line 252)
clearDatabase(st) == [st EXCEPT !.database = <<>>, !.origin = <<>>]

\* Provider.refresh(force)
providerRefresh(st, f, t, forced) ==
    IF forced THEN loadApplications(clearDatabase(st), f, t)
    ELSE partialLoop(st, f, getXdgApplicationFiles(f))

----------------------------------------------------------------------------
(* Provider.search, the loop over the database (applications.py 264-335) *)

\* Records an index can hold besides those of the environment above: names
\* of several words, capitals inside a word, the query inside all three
\* fields
ScorerRecords ==
    {[name |-> <<"R","e","m","o","t","e"," ","D","e","s","k","t","o","p"," ","V","i","e","w","e","r">>, exec |-> "vinagre",
      comment |-> <<"C","o","n","n","e","c","t"," ","t","o"," ","r","e","m","o","t","e"," ","d","e","s","k","t","o","p","s">>,
      genericName |-> <<"R","e","m","o","t","e"," ","D","e","s","k","t","o","p">>, icon |-> ""],
     [name |-> <<"C","a","m","p","f","i","r","e">>, exec |-> "campfire",
      comment |-> <<"W","i","l","d","f","i","r","e">>,
      genericName |-> <<"B","o","n","f","i","r","e">>, icon |-> ""],
     [name |-> <<"Z","e","d">>, exec |-> "zed",
      comment |-> <<"A"," ","w","i","l","d","f","i","r","e">>,
      genericName |-> <<"B","o","n","f","i","r","e">>, icon |-> ""],
     [name |-> <<"N","o","t","e","s">>, exec |-> "notes",
      comment |-> <<"a","b"," ","c","d"," ","e","f">>,
      genericName |-> <<"a"," ","x","b"," ","x","c">>, icon |-> ""],
     [name |-> <<"x","o","O">>, exec |-> "xoo",
      comment |-> <<>>,
      genericName |-> <<"a","B">>, icon |-> ""]}

\* The queries these records are searched with
ScorerQueries ==
    {<<"f","i","r","e">>,
     <<"F","I","R","E">>,
     <<"l","o","w">>,
     <<"g","i","m","p">>,
     <<"x","y","z">>,
     <<"e","o">>,
     <<"r","v">>,
     <<"r","-","v">>,
     <<"t","r","m","i","n","a","l">>,
     <<"a","b","c">>,
     <<"b","d","f">>,
     <<"o">>,
     <<"a","b">>,
     <<"e">>}

\* The records _getApplicationDict can return in this environment
Records == {getApplicationDict(id).dict :
              id \in {i \in ValidFiles \cup InvalidFiles :
                        getApplicationDict(i).raised = "none"}}

\* The score of each of these records for each query: clampScore(rawScore(app, q))
\* evaluated once, since it depends on nothing but the record and the query
ScoreMemo ==
    [app \in Records \cup ScorerRecords |->
        [q \in (Queries \cup ScorerQueries) \ {<<>>} |-> clampScore(rawScore(app, q))]]

\* what the loop appends to matches for app, given its score (lines 326-333)
matchOf(app, score) ==
    IF isMatch(score) THEN <<itemDict(app, score)>> ELSE <<>>

RECURSIVE searchLoop(_, _)
\* the loop over self.database (lines 280-333)
searchLoop(db, q) ==
    IF db = <<>> THEN <<>>
    ELSE matchOf(Head(db), ScoreMemo[Head(db)][q]) \o searchLoop(Tail(db), q)

\* Provider.search: [outcome, matches]
providerSearch(db, q) ==
    IF Len(q) = 0 THEN [outcome |-> "ValueError", matches |-> <<>>]
    ELSE [outcome |-> "ok", matches |-> searchLoop(db, q)]

----------------------------------------------------------------------------
(* The aggregator (main.py) *)

\* The modules import_module("indelve.providers." + name) finds
ProviderModules == {"applications"}

\* indelve.providers.__all__, the registry listProviders() returns
listProviders == <<"applications">>

\* The names the module bad defines (bad.py)
BadNames == {"IndelveInitWarning", "ProviderLoadWarning", "ProviderLoadError",
             "IndelveInitError", "NoProvidersError"}

\* The attribute of bad that __init__ passes to warn() (main.py 56)
WarningCategory == "providerLoadWarning"

\* warn(provider, bad.<category>) in the state acc of __init__: the attribute
\* is looked up first, and a name bad does not define raises AttributeError
warn(acc, provider, category) ==
    IF category \in BadNames
    THEN [acc EXCEPT !.warnings = Append(@, [category |-> category, message |-> provider])]
    ELSE [acc EXCEPT !.outcome = "AttributeError"]

\* self.providerInstances[provider] = providerModule.Provider() (main.py 59),
\* inst being what Provider() did
storeInstance(acc, provider, inst) ==
    [acc EXCEPT !.instances = IF inst.outcome = "ok" THEN @ \cup {provider} ELSE @,
                !.provider = inst,
                !.outcome = inst.outcome]

RECURSIVE initLoop(_, _, _, _)
\* the loop over the specified providers (main.py 51-59)
initLoop(acc, names, f, t) ==
    IF names = <<>> \/ acc.outcome # "ok" THEN acc
    ELSE IF Head(names) \notin ProviderModules
         THEN initLoop(warn(acc, Head(names), WarningCategory), Tail(names), f, t)
         ELSE initLoop(storeInstance(acc, Head(names), providerInit(f, t)),
                       Tail(names), f, t)

\* what __init__ does when the loop is over (main.py 59: nothing)
initEnd(acc) == acc

\* Indelve.__init__(providers)
indelveInit(providers, f, t) ==
    LET names == IF providers.isNone THEN listProviders ELSE providers.names
        start == [outcome |-> "ok", instances |-> {}, warnings |-> <<>>,
                  provider |-> [database |-> <<>>, origin |-> <<>>,
                                lastRefreshTime |-> 0, outcome |-> "ok"]]
    IN  initEnd(initLoop(start, names, f, t))

\* utilities.isItemDict(item): the fields of an <item-dict>, relevance in band
isItemDict(item) ==
    /\ DOMAIN item = {"relevance", "name", "exec", "description", "icon"}
    /\ item.relevance \in RELEVANCE.min..RELEVANCE.max

\* the key of items.sort (main.py 136): Python's sort is stable and ascending,
\* so x goes after every element whose key is not greater than its own
sortsBefore(a, b) == a.relevance <= b.relevance

RECURSIVE insertSorted(_, _)
insertSorted(sorted, x) ==
    IF sorted = <<>> THEN <<x>>
    ELSE IF sortsBefore(Head(sorted), x)
         THEN <<Head(sorted)>> \o insertSorted(Tail(sorted), x)
         ELSE <<x>> \o sorted

RECURSIVE sortItems(_)
sortItems(l) ==
    IF l = <<>> THEN <<>>
    ELSE insertSorted(sortItems(SubSeq(l, 1, Len(l) - 1)), l[Len(l)])

\* the order the loops visit the keys of providerInstances
RECURSIVE instanceOrder(_)
instanceOrder(S) ==
    IF S = {} THEN <<>>
    ELSE <<CHOOSE x \in S : TRUE>> \o instanceOrder(S \ {CHOOSE x \in S : TRUE})

\* the body of the loop over the provider instances, results being what the
\* provider's search did (main.py 125-133): a ValueError is skipped, the
\* items gathered so far are asserted to be <item-dict>'s, the results are added
gatherStep(acc, results) ==
    IF results.outcome = "ValueError" THEN acc
    ELSE IF \E i \in 1..Len(acc.items) : ~isItemDict(acc.items[i])
         THEN [acc EXCEPT !.outcome = "AssertionError"]
         ELSE [acc EXCEPT !.items = @ \o results.matches,
                          !.matches = results.matches]

RECURSIVE gatherLoop(_, _, _, _)
\* the loop over the provider instances (main.py 123-133)
gatherLoop(acc, names, db, q) ==
    IF names = <<>> \/ acc.outcome # "ok" THEN acc
    ELSE gatherLoop(gatherStep(acc, providerSearch(db, q)), Tail(names), db, q)

\* "Sort the items by relevance" and return (main.py 136-139)
sortAndReturn(got) ==
    IF got.outcome # "ok" THEN [got EXCEPT !.items = <<>>]
    ELSE [got EXCEPT !.items = sortItems(@)]

\* Indelve.search(query): [outcome, items, matches]
indelveSearch(instances, db, q) ==
    IF Len(q) = 0 THEN [outcome |-> "ValueError", items |-> <<>>, matches |-> <<>>]
    ELSE sortAndReturn(gatherLoop([outcome |-> "ok", items |-> <<>>, matches |-> <<>>],
                                  instanceOrder(instances), db, q))

\* Indelve.refresh(force): the provider state after the loop (main.py 102-104)
indelveRefresh(instances, st, f, t, forced) ==
    IF "applications" \in instances
    THEN providerRefresh([st EXCEPT !.outcome = "ok"], f, t, forced)
    ELSE [st EXCEPT !.outcome = "ok"]

----------------------------------------------------------------------------
(* The state machine *)

providerState ==
    [database |-> database, origin |-> origin,
     lastRefreshTime |-> lastRefreshTime, outcome |-> "ok"]

NoRequest == [isNone |-> FALSE, names |-> <<>>]

NoResult == /\ query' = <<>>
            /\ matches' = <<>>
            /\ items' = <<>>

Init ==
    /\ world \in Worlds
    /\ fs = [s \in Slots(world) |-> Absent]
    /\ now = 1
    /\ constructed = FALSE
    /\ providerInstances = {}
    /\ database = <<>>
    /\ origin = <<>>
    /\ lastRefreshTime = 0
    /\ warnings = <<>>
    /\ lastOp = "none"
    /\ requested = NoRequest
    /\ force = FALSE
    /\ outcome = "ok"
    /\ query = <<>>
    /\ matches = <<>>
    /\ items = <<>>

\* The environment writes a file into a directory slot
Install(s, id) ==
    /\ fs[s] # [file |-> id, mtime |-> now]
    /\ fs' = [fs EXCEPT ![s] = [file |-> id, mtime |-> now]]
    /\ lastOp' = "install"
    /\ requested' = NoRequest
    /\ force' = FALSE
    /\ outcome' = "ok"
    /\ NoResult
    /\ UNCHANGED <<world, now, constructed, providerInstances, database, origin,
                   lastRefreshTime, warnings>>

\* The environment deletes a file
Remove(s) ==
    /\ fs[s].file # "absent"
    /\ fs' = [fs EXCEPT ![s] = Absent]
    /\ lastOp' = "remove"
    /\ requested' = NoRequest
    /\ force' = FALSE
    /\ outcome' = "ok"
    /\ NoResult
    /\ UNCHANGED <<world, now, constructed, providerInstances, database, origin,
                   lastRefreshTime, warnings>>

\* Time passes
Tick ==
    /\ now < MaxTime
    /\ now' = now + 1
    /\ UNCHANGED <<world, fs, constructed, providerInstances, database, origin,
                   lastRefreshTime, warnings, lastOp, requested, force, outcome,
                   query, matches, items>>

\* Indelve(providers)
Construct(providers) ==
    /\ ~constructed
    /\ \E r \in {indelveInit(providers, fs, now)} :
           /\ outcome' = r.outcome
           /\ constructed' = (r.outcome = "ok")
           /\ providerInstances' = IF r.outcome = "ok" THEN r.instances ELSE {}
           /\ database' = IF r.outcome = "ok" THEN r.provider.database ELSE <<>>
           /\ origin' = IF r.outcome = "ok" THEN r.provider.origin ELSE <<>>
           /\ lastRefreshTime' = IF r.outcome = "ok" THEN r.provider.lastRefreshTime ELSE 0
           /\ warnings' = r.warnings
    /\ lastOp' = "construct"
    /\ requested' = providers
    /\ force' = FALSE
    /\ NoResult
    /\ UNCHANGED <<world, fs, now>>

\* Indelve.refresh(force)
Refresh(forced) ==
    /\ constructed
    /\ \E r \in {indelveRefresh(providerInstances, providerState, fs, now, forced)} :
           /\ outcome' = r.outcome
           /\ database' = r.database
           /\ origin' = r.origin
           /\ lastRefreshTime' = r.lastRefreshTime
    /\ lastOp' = "refresh"
    /\ requested' = NoRequest
    /\ force' = forced
    /\ NoResult
    /\ UNCHANGED <<world, fs, now, constructed, providerInstances, warnings>>

\* Indelve.search(query)
Search(q) ==
    /\ constructed
    /\ \E r \in {indelveSearch(providerInstances, database, q)} :
           /\ outcome' = r.outcome
           /\ matches' = r.matches
           /\ items' = r.items
    /\ query' = q
    /\ lastOp' = "search"
    /\ requested' = NoRequest
    /\ force' = FALSE
    /\ UNCHANGED <<world, fs, now, constructed, providerInstances, database, origin,
                   lastRefreshTime, warnings>>

Next ==
    \/ \E s \in Slots(world) : \E id \in Candidates[world][s] : Install(s, id)
    \/ \E s \in Slots(world) : Remove(s)
    \/ Tick
    \/ \E providers \in ProviderLists : Construct(providers)
    \/ \E forced \in BOOLEAN : Refresh(forced)
    \/ \E q \in Queries : Search(q)

Spec == Init /\ [][Next]_vars

----------------------------------------------------------------------------
(* Indelve.search over providers of the abstract contract (main.py 107-139,
   providers/abstract.py 47-61): what each provider's search returns is an
   input *)

\* The keys of providerInstances: instances of classes implementing
\* abstract.Provider
AbstractProviders == {"first", "second"}

\* <item-dict>'s as the contract of Provider.search describes them
WellFormedItems ==
    {[relevance |-> r, name |-> <<"a">>, exec |-> "a", description |-> <<>>,
      icon |-> ""] : r \in {RELEVANCE.bad, RELEVANCE.good}}

\* dicts that are no <item-dict>: a relevance outside the scale, a missing key
MalformedItems ==
    {[relevance |-> RELEVANCE.max + 1, name |-> <<"b">>, exec |-> "b",
      description |-> <<>>, icon |-> ""],
     [relevance |-> RELEVANCE.good, name |-> <<"c">>, description |-> <<>>,
      icon |-> ""]}

ReturnedItems == WellFormedItems \cup MalformedItems

\* What a provider's search(query) can do: raise ValueError, or return a list
ProviderReturns ==
    {[outcome |-> "ValueError", matches |-> <<>>]}
    \cup {[outcome |-> "ok", matches |-> <<>>]}
    \cup {[outcome |-> "ok", matches |-> <<x>>] : x \in ReturnedItems}
    \cup {[outcome |-> "ok", matches |-> <<x, y>>] :
            x \in ReturnedItems, y \in ReturnedItems}

RECURSIVE gatherReturned(_, _, _)
\* the loop over the provider instances (main.py 123-133), returned[name]
\* being what self.providerInstances[name].search(query) does
gatherReturned(acc, names, returned) ==
    IF names = <<>> \/ acc.outcome # "ok" THEN acc
    ELSE gatherReturned(gatherStep(acc, returned[Head(names)]), Tail(names), returned)

\* Indelve.search(query) over these providers
indelveSearchOver(instances, returned, q) ==
    IF Len(q) = 0 THEN [outcome |-> "ValueError", items |-> <<>>, matches |-> <<>>]
    ELSE sortAndReturn(gatherReturned([outcome |-> "ok", items |-> <<>>, matches |-> <<>>],
                                      instanceOrder(instances), returned))

\* An aggregator holding one or two provider instances
AggregatorInit ==
    /\ world = "scenario"
    /\ fs = [s \in Slots(world) |-> Absent]
    /\ now = 1
    /\ constructed = TRUE
    /\ providerInstances \in (SUBSET AbstractProviders) \ {{}}
    /\ database = <<>>
    /\ origin = <<>>
    /\ lastRefreshTime = 0
    /\ warnings = <<>>
    /\ lastOp = "construct"
    /\ requested = NoRequest
    /\ force = FALSE
    /\ outcome = "ok"
    /\ query = <<>>
    /\ matches = <<>>
    /\ items = <<>>

\* Indelve.search(query), the providers answering with `returned`
SearchOver(q, returned) ==
    /\ constructed
    /\ \E r \in {indelveSearchOver(providerInstances, returned, q)} :
           /\ outcome' = r.outcome
           /\ matches' = r.matches
           /\ items' = r.items
    /\ query' = q
    /\ lastOp' = "search"
    /\ requested' = NoRequest
    /\ force' = FALSE
    /\ UNCHANGED <<world, fs, now, constructed, providerInstances, database, origin,
                   lastRefreshTime, warnings>>

AggregatorNext ==
    \E q \in {<<>>, <<"a">>} :
        \E returned \in [providerInstances -> ProviderReturns] : SearchOver(q, returned)

AggregatorSpec == AggregatorInit /\ [][AggregatorNext]_vars

----------------------------------------------------------------------------
(* Provider.search on a given index (applications.py 264-335): the index and
   the query are inputs *)

\* An aggregator whose applications provider holds one record
ScorerInit ==
    /\ world = "scoring"
    /\ fs = [s \in Slots(world) |-> Absent]
    /\ now = 1
    /\ constructed = TRUE
    /\ providerInstances = {"applications"}
    /\ database \in {<<app>> : app \in Records \cup ScorerRecords}
    /\ origin = <<"index">>
    /\ lastRefreshTime = 1
    /\ warnings = <<>>
    /\ lastOp = "construct"
    /\ requested = NoRequest
    /\ force = FALSE
    /\ outcome = "ok"
    /\ query = <<>>
    /\ matches = <<>>
    /\ items = <<>>

ScorerNext == \E q \in Queries \cup ScorerQueries : Search(q)

ScorerSpec == ScorerInit /\ [][ScorerNext]_vars

----------------------------------------------------------------------------
(* Properties *)

SearchReturned == lastOp = "search" /\ outcome = "ok"

\* the names Indelve(requested) loops over
requestedNames == IF requested.isNone THEN listProviders ELSE requested.names

\* the record of a file of the environment
recordOf(id) ==
    [name |-> DesktopFile(id).name, exec |-> DesktopFile(id).exec,
     comment |-> DesktopFile(id).comment,
     genericName |-> DesktopFile(id).genericName, icon |-> DesktopFile(id).icon]

\* the conditions of an AppRecord on the file it is read from
validFile(id) ==
    /\ DesktopFile(id).isFile
    /\ Lower(DesktopFile(id).ext) = <<".","d","e","s","k","t","o","p">>
    /\ DesktopFile(id).parse = "ok"
    /\ DesktopFile(id).type = "Application"
    /\ ~DesktopFile(id).hidden
    /\ "Screensaver" \notin DesktopFile(id).categories
    /\ (~DesktopFile(id).hasTryExec \/ DesktopFile(id).tryExec \in OnPath)
    /\ DesktopFile(id).exec # ""

\* the slots that hold a file, in listing order
present(f) == SelectSeq([s \in 1..Len(f) |-> s], LAMBDA s : f[s].file # "absent")

\* the index a fresh full load builds from the filesystem f: the records of
\* the valid files, in listing order
freshIndex(f) ==
    LET valid == SelectSeq(present(f), LAMBDA s : validFile(f[s].file))
    IN  [i \in 1..Len(valid) |-> recordOf(f[valid[i]].file)]

\* the records a partial refresh is to append: those of the valid files
\* modified after `since`, in listing order
modifiedIndex(f, since) ==
    LET new == SelectSeq(present(f),
                         LAMBDA s : f[s].mtime > since /\ validFile(f[s].file))
    IN  [i \in 1..Len(new) |-> recordOf(f[new[i]].file)]

\* C1: every record the applications provider's search returns has an
\* integer relevance in [0, 10000], and none has relevance 0.
C1_RelevanceInBand ==
    SearchReturned =>
        \A i \in 1..Len(matches) :
            /\ matches[i].relevance \in Int
            /\ RELEVANCE.min <= matches[i].relevance
            /\ matches[i].relevance <= RELEVANCE.max
            /\ matches[i].relevance # 0

\* C1, its case: a search returned a record whose score max(S_sub, S_acr)
\* exceeded the band and was clamped to 10000
C1_ClampedRecordReturned ==
    /\ SearchReturned
    /\ \E i \in 1..Len(matches) : matches[i].relevance = RELEVANCE.max
    /\ \E j \in 1..Len(database) : rawScore(database[j], query) > RELEVANCE.max

\* C2: the list Indelve.search returns is sorted descending by relevance:
\* each item's relevance is at least the next one's, and items of equal
\* relevance keep the order the providers returned them in.
C2_SortedDescending ==
    SearchReturned =>
        /\ \A i \in 1..(Len(items) - 1) : items[i].relevance >= items[i + 1].relevance
        /\ \A i \in 1..Len(matches) : \A j \in 1..Len(matches) :
              (i < j /\ matches[i].relevance = matches[j].relevance
                     /\ matches[i] # matches[j])
              => \E a \in 1..Len(items) : \E b \in 1..Len(items) :
                    a < b /\ items[a] = matches[i] /\ items[b] = matches[j]

\* C3: constructing the aggregator fails with NoProvidersError whenever no
\* requested provider ends up loaded, and no aggregator exists with an empty
\* active provider map.
C3_NoProvidersError ==
    /\ constructed => providerInstances # {}
    /\ (lastOp = "construct"
        /\ \A i \in 1..Len(requestedNames) : requestedNames[i] \notin ProviderModules)
       => (~constructed /\ outcome = "NoProvidersError")

\* C4: an unknown requested provider name causes exactly one non-fatal
\* ProviderLoadWarning for that name and is skipped; construction continues
\* with the other names, so ["applications", "bogus"] gives an aggregator
\* whose active provider map holds exactly "applications".
C4_UnknownProviderWarned ==
    (/\ lastOp = "construct"
     /\ \E i \in 1..Len(requestedNames) : requestedNames[i] \in ProviderModules
     /\ \E i \in 1..Len(requestedNames) : requestedNames[i] \notin ProviderModules)
    => /\ outcome = "ok"
       /\ constructed
       /\ providerInstances =
            {requestedNames[i] : i \in 1..Len(requestedNames)} \cap ProviderModules
       /\ warnings =
            [i \in 1..Len(SelectSeq(requestedNames, LAMBDA n : n \notin ProviderModules)) |->
                [category |-> "ProviderLoadWarning",
                 message |-> SelectSeq(requestedNames,
                                       LAMBDA n : n \notin ProviderModules)[i]]]

\* C5: after refresh(force=true), whatever the index was, the index is the
\* one a fresh full load builds from the current filesystem; and a second
\* refresh(force=true) over the unchanged filesystem leaves the same records.
C5_ForcedRefreshState ==
    (lastOp = "refresh" /\ force /\ "applications" \in providerInstances)
    => (outcome = "ok" /\ database = freshIndex(fs))

C5_ForcedRefreshTwice ==
    (/\ lastOp = "refresh" /\ force /\ outcome = "ok"
     /\ lastOp' = "refresh" /\ force' /\ now' = now /\ fs' = fs)
    => database' = database

C5_ForcedRefreshIsFreshLoad ==
    [](C5_ForcedRefreshState) /\ [][C5_ForcedRefreshTwice]_vars

\* C5, its case: a forced refresh rebuilt a non-empty index that differs
\* from the files present (a file was left out), at a time later than the
\* first load could have been made
C5_ForcedRefreshDone ==
    /\ lastOp = "refresh" /\ force /\ outcome = "ok"
    /\ "applications" \in providerInstances
    /\ database # <<>>
    /\ Len(database) < Len(present(fs))
    /\ lastRefreshTime > 1

\* C6: refresh(force=false) appends a record for exactly the discovered files
\* whose modification time is strictly greater than last_refresh_time and
\* which pass validation, and keeps the records already in the index in place.
C6_PartialRefreshStep ==
    (/\ lastOp' = "refresh" /\ ~force' /\ now' = now
     /\ "applications" \in providerInstances)
    => /\ outcome' = "ok"
       /\ database' = database \o modifiedIndex(fs, lastRefreshTime)

C6_PartialRefreshAppends == [][C6_PartialRefreshStep]_vars

\* C7: refresh(force), for both values of force and any filesystem content,
\* never fails visibly to the caller.
C7_RefreshNeverFails == lastOp = "refresh" => outcome = "ok"

\* C8: every record in the index was read from a file that, when it was
\* added, was a regular file with a .desktop extension, parsed, had
\* Type=Application, was not Hidden, was not a Screensaver, had no TryExec or
\* one that resolves on PATH, and had a non-empty Exec.
C8_IndexHoldsValidFiles ==
    /\ Len(origin) = Len(database)
    /\ \A i \in 1..Len(database) :
          validFile(origin[i]) /\ database[i] = recordOf(origin[i])

\* C8, its case: the index was loaded from a directory that held a file
\* failing a condition beside a valid one
C8_InvalidFileLeftOut ==
    /\ lastOp = "construct" /\ outcome = "ok"
    /\ database # <<>>
    /\ \E s \in DOMAIN fs : fs[s].file \in InvalidFiles

\* the record app with the letters of its scored fields folded
foldedFields(app) ==
    <<Lower(app.name), Lower(app.comment), Lower(app.genericName)>>

\* C9: the substring sub-score is invariant under ASCII case, of the query
\* and of the record's name, comment and generic name, in the provider and
\* in its copy providers/applications.py.
C9_CaseInvariant ==
    SearchReturned =>
        \A i \in 1..Len(database) :
            /\ \A q \in Queries \ {<<>>} :
                  Lower(q) = Lower(query)
                  => /\ scoreSub(database[i], q) = scoreSub(database[i], query)
                     /\ legacySubstringSum(database[i], q)
                          = legacySubstringSum(database[i], query)
            /\ \A app \in Records :
                  foldedFields(app) = foldedFields(database[i])
                  => /\ scoreSub(app, query) = scoreSub(database[i], query)
                     /\ legacySubstringSum(app, query)
                          = legacySubstringSum(database[i], query)

\* the index of the four scenario records
ScenarioIndex ==
    <<recordOf("gimp"), recordOf("writer"), recordOf("firefox"), recordOf("terminal")>>

\* "low" was searched for in the index of the four scenario records
C10_LowSearched ==
    /\ SearchReturned
    /\ query = <<"l","o","w">>
    /\ database = ScenarioIndex

\* C10 as stated: for "low" against "LibreOffice Writer" there is no substring
\* match, the acronym score on the name is 5700, and the record ranks first.
C10_WriterScores5700 ==
    C10_LowSearched =>
        /\ \A key \in SubKeys : keyIndex(recordOf("writer"), key, Lower(query)) = -1
        /\ acronymMaxiumScore(recordOf("writer").name, Translate(Lower(query)),
                              "name", TRUE) = 5700
        /\ Len(items) >= 1
        /\ items[1].name = recordOf("writer").name

\* C10 as amended: the acronym score on the name is 7000 = 3000 + 800 + 1200
\* + 800 + 1200 ('O' follows the lowercase 'e' and earns +letter_capital),
\* there is no substring match, and the record ranks first with relevance 7000.
C10_WriterScores7000 ==
    C10_LowSearched =>
        /\ \A key \in SubKeys : keyIndex(recordOf("writer"), key, Lower(query)) = -1
        /\ acronymMaxiumScore(recordOf("writer").name, Translate(Lower(query)),
                              "name", TRUE) = 3000 + 800 + 1200 + 800 + 1200
        /\ Len(items) >= 1
        /\ items[1].name = recordOf("writer").name
        /\ items[1].relevance = 7000

\* C10, its case: the search for "low" in the scenario index returned
C10_LowReturned == C10_LowSearched /\ Len(items) >= 1

\* C12: after a refresh(force=false) that completes, last_refresh_time is the
\* time of that refresh, partial refreshes advancing it as full loads do.
C12_PartialRefreshStampsTime ==
    (/\ lastOp = "refresh" /\ ~force /\ outcome = "ok"
     /\ "applications" \in providerInstances)
    => lastRefreshTime = now

\* C11: in Indelve.search every record returned by every provider, the last
\* one queried included, is validated against the <item-dict> shape before it
\* is added: a search that returns holds well-formed records only, a
\* malformed record making the search fail instead.
C11_ReturnedItemsValidated ==
    SearchReturned => \A i \in 1..Len(items) : isItemDict(items[i])

\* the Python indices at which the folded query fq occurs in the folded
\* text of app[key]
occurrences(app, key, fq) ==
    {i \in 0..(Len(app[key]) - Len(fq)) :
        \A j \in 1..Len(fq) : LowerChar(app[key][i + j]) = fq[j]}

firstOccurrence(app, key, fq) ==
    CHOOSE i \in occurrences(app, key, fq) :
        \A k \in occurrences(app, key, fq) : i <= k

\* what one key adds: +found, plus +start_string at index 0, else plus
\* +start_word after a space
expectedKeyTerm(app, key, fq) ==
    IF occurrences(app, key, fq) = {} THEN 0
    ELSE SCORING.substring.found[key]
         + (IF firstOccurrence(app, key, fq) = 0
            THEN SCORING.substring.start_string[key]
            ELSE IF app[key][firstOccurrence(app, key, fq)] = " "
                 THEN SCORING.substring.start_word[key]
                 ELSE 0)

keysMatching(app, fq) == {key \in SubKeys : occurrences(app, key, fq) # {}}

\* the multiples penalty {0:0, 1:0, 2:2000, 3:4000}
expectedPenalty(k) == IF k = 2 THEN 2000 ELSE IF k = 3 THEN 4000 ELSE 0

expectedSubstringSum(app, fq) ==
    expectedKeyTerm(app, "name", fq) + expectedKeyTerm(app, "comment", fq)
    + expectedKeyTerm(app, "genericName", fq)
    - expectedPenalty(Cardinality(keysMatching(app, fq)))

\* C14: the substring sub-score of a record is the sum over the keys in
\* which the folded query occurs of +found (+start_string at index 0, else
\* +start_word after a space), minus the multiples penalty for the number of
\* keys matched, times ln(len(q))/5 + 1, truncated; "fire" against "Firefox"
\* gives 5500 before the boost and relevance 7024.
C14_SubstringFormula ==
    SearchReturned =>
        \A i \in 1..Len(database) :
            /\ substringSum(database[i], query)
                 = expectedSubstringSum(database[i], Lower(query))
            /\ scoreSub(database[i], query)
                 = LengthBoost(expectedSubstringSum(database[i], Lower(query)), Len(query))
            /\ (database[i] = recordOf("firefox") /\ Lower(query) = <<"f","i","r","e">>)
               => /\ substringSum(database[i], query) = 5500
                  /\ scoreSub(database[i], query) = 7024
                  /\ \E j \in 1..Len(matches) :
                        /\ matches[j].name = database[i].name
                        /\ matches[j].relevance = 7024

\* C14, its case: "fire" was searched for in an index holding Firefox
C14_FirefoxScored ==
    /\ SearchReturned
    /\ query = <<"f","i","r","e">>
    /\ database = <<recordOf("firefox")>>
    /\ Len(matches) = 1

\* the least sum the keys of K can give when all of them match: "+found"
\* alone for each, minus the penalty for that many keys
leastSum(K) ==
    (IF "name" \in K THEN SCORING.substring.found.name ELSE 0)
    + (IF "comment" \in K THEN SCORING.substring.found.comment ELSE 0)
    + (IF "genericName" \in K THEN SCORING.substring.found.genericName ELSE 0)
    - SCORING.substring.multiples[Cardinality(K)]

\* C17: the multiples penalty never cancels a substring match: when the
\* folded query occurs in the name, comment or generic name, S_sub > 0 and
\* the record is in the provider's result; S_sub is never negative, so the
\* lower clamp changes no score.
C17_PenaltyNeverCancels ==
    SearchReturned =>
      /\ \A K \in (SUBSET SubKeys) \ {{}} : \A n \in DOMAIN LnTable :
            LengthBoost(leastSum(K), n) >= leastSum(K) /\ leastSum(K) > 0
      /\ \A i \in 1..Len(database) :
            /\ substringSum(database[i], query) >= 0
            /\ scoreSub(database[i], query) >= 0
            /\ rawScore(database[i], query) >= RELEVANCE.min
            /\ keysMatching(database[i], Lower(query)) # {}
               => /\ scoreSub(database[i], query) > 0
                  /\ \E j \in 1..Len(matches) :
                        /\ matches[j].name = database[i].name
                        /\ matches[j].exec = database[i].exec
                        /\ matches[j].relevance > 0

\* C17, its case: the query occurs inside a word of all three fields, so that
\* the largest penalty meets the smallest sum
C17_AllKeysMatched ==
    /\ SearchReturned
    /\ Len(database) = 1
    /\ keysMatching(database[1], Lower(query)) = SubKeys
    /\ substringSum(database[1], query)
         = SCORING.substring.found.name + SCORING.substring.found.comment
           + SCORING.substring.found.genericName - SCORING.substring.multiples[3]
    /\ Len(matches) = 1

\* the query as the acronym scorer receives it (applications.py 312)
acronymOf(q) == Translate(Lower(q))

\* the Python indices of string that hold the letter c, in either case
lettersAt(string, c) ==
    {j \in 0..(Len(string) - 1) : LowerChar(At(string, j)) = c}

SetMax(S) == CHOOSE x \in S : \A y \in S : y <= x

\* where stringLeft starts when the loop reaches the occurrence at index p of
\* string: after the occurrence of the same letter before p, or at 0
leftStart(string, p) ==
    IF \E j \in lettersAt(string, LowerChar(At(string, p))) : j < p
    THEN SetMax({j \in lettersAt(string, LowerChar(At(string, p))) : j < p}) + 1
    ELSE 0

\* the per-letter term of aligning the next query letter at index p of string
alignedLetterTerm(string, p, key, first) ==
    letterScore(string, SliceFrom(string, leftStart(string, p)),
                p - leftStart(string, p), key, first)

RECURSIVE alignmentTotals(_, _, _, _)
\* the totals of the complete in-order alignments of acronym in string: the
\* found bonus plus the per-letter terms
alignmentTotals(string, acronym, key, first) ==
    IF Len(acronym) = 0 THEN {SCORING.acronym.found[key]}
    ELSE UNION {{alignedLetterTerm(string, p, key, first) + t :
                    t \in alignmentTotals(SliceFrom(string, p + 1), Tail(acronym),
                                          key, FALSE)} :
                p \in lettersAt(string, acronym[1])}

bestAlignment(string, acronym, key) ==
    IF alignmentTotals(string, acronym, key, TRUE) = {} THEN 0
    ELSE SetMax(alignmentTotals(string, acronym, key, TRUE))

\* C13: the acronym scorer returns, for every source string and query q',
\* the maximum over all complete in-order alignments of q' in the source of
\* the found bonus plus the per-letter terms, and 0 when there is no complete
\* alignment; no complete alignment with a positive total is missed.
C13_MaximumOverAlignments ==
    SearchReturned =>
        \A i \in 1..Len(database) : \A key \in AcrKeys :
            acronymMaxiumScore(database[i][key], acronymOf(query), key, TRUE)
              = bestAlignment(database[i][key], acronymOf(query), key)

\* The calls of the loop body for the k-th letter of acronym on source:
\* string starts at a (the source itself for the first letter, else what
\* follows an occurrence of the letter before), stringLeft at b of string
\* (string itself, or what follows an earlier occurrence of the letter)
letterCalls(source, acronym) ==
    {c \in [k : 1..Len(acronym), a : 0..Len(source), b : 0..Len(source)] :
        /\ IF c.k = 1 THEN c.a = 0
           ELSE c.a > 0 /\ (c.a - 1) \in lettersAt(source, acronym[c.k - 1])
        /\ c.b = 0 \/ (c.a + c.b - 1) \in lettersAt(source, acronym[c.k])
        /\ \E j \in lettersAt(source, acronym[c.k]) : j >= c.a + c.b}

callString(source, c) == SliceFrom(source, c.a)
callStringLeft(source, c) == SliceFrom(source, c.a + c.b)
callIndex(source, acronym, c) == Find(Lower(callStringLeft(source, c)), <<acronym[c.k]>>)
\* the Python index in source of the letter the call aligns
callPosition(source, acronym, c) == c.a + c.b + callIndex(source, acronym, c)

callSkipPenalty(source, acronym, c, key) ==
    skipPenalty(callString(source, c), callStringLeft(source, c),
                callIndex(source, acronym, c), key, c.k = 1)

callLetterBonus(source, acronym, c, key) ==
    letterBonus(callString(source, c), callStringLeft(source, c),
                callIndex(source, acronym, c), key, c.k = 1)

\* a space among the characters of source at the indices from..to
spaceWithin(source, from, to) == \E j \in from..to : At(source, j) = " "

\* C15 as stated: -letter_word_skip is subtracted from an aligned letter
\* exactly when it is not the first query letter and there is a space strictly
\* before its position among the characters consumed since the previous
\* aligned letter; never from the first query letter.
C15_SkipWhenSpaceBefore ==
    SearchReturned =>
        \A i \in 1..Len(database) : \A key \in AcrKeys :
            \A c \in letterCalls(database[i][key], acronymOf(query)) :
                callSkipPenalty(database[i][key], acronymOf(query), c, key)
                  = IF /\ c.k > 1
                       /\ spaceWithin(database[i][key], c.a,
                                      callPosition(database[i][key], acronymOf(query), c) - 1)
                    THEN SCORING.acronym.letter_word_skip[key]
                    ELSE 0

\* C15 as amended: the penalty is subtracted exactly when the letter is not
\* the first query letter and there is a space among the characters consumed
\* since the previous aligned letter other than the character right before
\* the letter (a space there starts the letter's own word).
C15_SkipWhenWordSkipped ==
    SearchReturned =>
        \A i \in 1..Len(database) : \A key \in AcrKeys :
            \A c \in letterCalls(database[i][key], acronymOf(query)) :
                callSkipPenalty(database[i][key], acronymOf(query), c, key)
                  = IF /\ c.k > 1
                       /\ spaceWithin(database[i][key], c.a,
                                      callPosition(database[i][key], acronymOf(query), c) - 2)
                    THEN SCORING.acronym.letter_word_skip[key]
                    ELSE 0

\* C15, its case: a search in which a letter after the first was aligned past
\* a whole word, and the first letter could be aligned after a space
C15_WordSkipped ==
    /\ SearchReturned
    /\ \E i \in 1..Len(database) :
        \E c1, c2 \in letterCalls(database[i].name, acronymOf(query)) :
            /\ c1.k > 1
            /\ callSkipPenalty(database[i].name, acronymOf(query), c1, "name")
                 = SCORING.acronym.letter_word_skip.name
            /\ c2.k = 1
            /\ spaceWithin(database[i].name, 0,
                           callPosition(database[i].name, acronymOf(query), c2) - 2)

\* C16: every aligned letter that is uppercase in the source and immediately
\* preceded there by a lowercase letter receives +letter_capital and not
\* -letter_non, also when the preceding lowercase letter is the previously
\* aligned letter.
C16_CapitalAfterLowercase ==
    SearchReturned =>
        \A i \in 1..Len(database) : \A key \in AcrKeys :
            \A c \in letterCalls(database[i][key], acronymOf(query)) :
                (/\ callPosition(database[i][key], acronymOf(query), c) > 0
                 /\ At(database[i][key], callPosition(database[i][key], acronymOf(query), c))
                      \in DOMAIN LowerOf
                 /\ At(database[i][key], callPosition(database[i][key], acronymOf(query), c) - 1)
                      \in DOMAIN UpperOf)
                => callLetterBonus(database[i][key], acronymOf(query), c, key)
                     = SCORING.acronym.letter_capital[key]

====
